---- MODULE Spec2Model ----
(***************************************************************************)
(* hono-i18n: createI18n, the i18nMiddleware it returns and the getI18n    *)
(* accessor (src/src/common/createI18n/createI18n.ts), run against a Hono  *)
(* application that serves several requests at once.                       *)
(*                                                                         *)
(* An instance is one call of createI18n.  A request owns one Hono context *)
(* whose variable "i18n" is either undefined or {locale}.  A middleware    *)
(* run is synchronous up to its `await next()`; it stays suspended there   *)
(* until next() settles.  getLocale and the downstream handlers belong to  *)
(* the application: what getLocale returns and when handlers call getI18n  *)
(* is chosen nondeterministically.                                         *)
(***************************************************************************)
EXTENDS Naturals, Sequences, FiniteSets

(* ---------------------------------------------------------------- bounds *)

\* Most runs of an i18nMiddleware (of any instance) for one request.
MaxRuns == 2

\* The createI18n calls and the requests in flight.
Instances == {"A", "B"}
Requests == {"r1", "r2"}

(* ------------------------------------------------------------ JS values *)

\* An optional value: <<>> is undefined, <<x>> is x.
Undefined == <<>>

Some(x) == <<x>>

\* What a getLocale callback can hand back: string | null | undefined by its
\* type, and any other shape when the callback is untyped ("object": for
\* instance new String("en-EN") or ["en-EN"]).
Str(s) == [type |-> "string", val |-> s]

NoValue == [type |-> "undefined", val |-> ""]

\* "en-EN" and "de-DE" are the catalog keys of the tests; the other strings
\* differ from "en-EN" in case, are a sub-tag or a super-tag of it, or are
\* unrelated.
GetLocaleReturns ==
    { Str("en-EN"), Str("de-DE"), Str("tr-TR"), Str("en-en"), Str("en"),
      Str("en-EN-x"),
      [type |-> "null", val |-> ""], NoValue,
      [type |-> "object", val |-> "en-EN"] }

typeof(v) == v.type

\* getLocale throws instead of returning.
Throws == [type |-> "throw", val |-> "getLocale error"]

GetLocaleOutcomes == GetLocaleReturns \cup {Throws}

\* What next() rejects with when a downstream handler fails ("" when it
\* fulfils).
NextOutcomes == {"", "handler error"}

(* ------------------------------------------------------------- catalogs *)

\* A messages object: its own enumerable keys in enumeration order, each
\* with its messages (here the one message "greeting").
TestMessages ==
    << [key |-> "en-EN", greeting |-> "Hi!"],
       [key |-> "de-DE", greeting |-> "Hallo!"] >>

GermanOnly == << [key |-> "de-DE", greeting |-> "Hallo!"] >>

Catalogs == { <<>>, TestMessages, GermanOnly }

DefaultLocales == {"en-EN", "de-DE", "tr-TR"}

\* Mutant: the first key is lost.
ObjectKeys_SkipsFirst(messages) ==
    [k \in 1..(Len(messages) - 1) |-> messages[k + 1].key]

\* Object.keys(messages)
ObjectKeys(messages) == [k \in 1..Len(messages) |-> messages[k].key]

\* Mutant: only the first element is compared.
includes_FirstOnly(list, x) == Len(list) > 0 /\ list[1] = x

\* Array.prototype.includes on strings: exact equality with some element.
includes(list, x) == \E k \in 1..Len(list) : list[k] = x

(* ------------------------------------------------------------- closures *)

NoMessages == <<>>

\* createGetI18n(messages): the accessor keeps the catalog.
createGetI18n(messages) == [defined |-> TRUE, messages |-> messages]

\* createI18nMiddleware({locales, defaultLocale, getLocale}): the middleware
\* keeps the locale list and the default locale.
createI18nMiddleware(locales, defaultLocale) ==
    [defined |-> TRUE, locales |-> locales, defaultLocale |-> defaultLocale]

NoGetI18n == [defined |-> FALSE, messages |-> NoMessages]

NoMiddleware == [defined |-> FALSE, locales |-> <<>>, defaultLocale |-> ""]

\* createTranslate(messages, locale) of core-i18n: the translator is known
\* here by the pair it was built from.
createTranslate(messages, locale) == [messages |-> messages, locale |-> locale]

\* t("greeting") of a translator whose locale is a key of its catalog.
t(translator, key) ==
    LET k == CHOOSE k \in 1..Len(translator.messages) :
                 translator.messages[k].key = translator.locale
    IN  translator.messages[k][key]

(* ---------------------------------------------------------------- state *)

VARIABLES
    args,         \* args[i]: the arguments of instance i's createI18n call
    thrown,       \* thrown[i]: the error createI18n threw ("" for none)
    getI18nFn,    \* getI18nFn[i]: the accessor createI18n returned
    middlewareFn, \* middlewareFn[i]: the middleware createI18n returned
    ctx,          \* ctx[r]: c.get("i18n") of request r's context
    runs,         \* runs[r]: middleware runs started for request r
    writes,       \* writes[r]: c.set("i18n", ...) calls on request r
    depth,        \* depth[r]: middleware runs suspended at `await next()`
    nexts,        \* nexts[r]: next() calls made by middleware runs for r
    settled,      \* settled[r]: middleware runs for r whose promise settled
    last          \* the last operation and what it returned or threw

vars == <<args, thrown, getI18nFn, middlewareFn, ctx, runs, writes, depth,
          nexts, settled, last>>

NoCall == [called |-> FALSE, messages |-> NoMessages, defaultLocale |-> ""]

Op(op, i, r, selected, error, translator) ==
    [op |-> op, inst |-> i, req |-> r, selected |-> selected,
     error |-> error, translator |-> translator, next |-> ""]

\* A middleware run of request r resumes after next() settled as `next`
\* and its own promise settles with `error` ("" when it fulfils).
OpNext(r, next, error) ==
    [Op("next", "", r, NoValue, error, Undefined) EXCEPT !.next = next]

Init ==
    /\ args = [i \in Instances |-> NoCall]
    /\ thrown = [i \in Instances |-> ""]
    /\ getI18nFn = [i \in Instances |-> NoGetI18n]
    /\ middlewareFn = [i \in Instances |-> NoMiddleware]
    /\ ctx = [r \in Requests |-> Undefined]
    /\ runs = [r \in Requests |-> 0]
    /\ writes = [r \in Requests |-> 0]
    /\ depth = [r \in Requests |-> 0]
    /\ nexts = [r \in Requests |-> 0]
    /\ settled = [r \in Requests |-> 0]
    /\ last = Op("init", "", "", NoValue, "", Undefined)

(* ----------------------------------------------------------- createI18n *)

\* Mutant: the membership check of defaultLocale is left out.
createI18n_Unchecked(i, messages, defaultLocale) ==
    /\ ~args[i].called
    /\ args' = [args EXCEPT ![i] = [called |-> TRUE, messages |-> messages,
                                    defaultLocale |-> defaultLocale]]
    /\ getI18nFn' = [getI18nFn EXCEPT ![i] = createGetI18n(messages)]
    /\ middlewareFn' = [middlewareFn EXCEPT ![i] =
           createI18nMiddleware(ObjectKeys(messages), defaultLocale)]
    /\ last' = Op("createI18n", i, "", NoValue, "", Undefined)
    /\ UNCHANGED <<thrown, ctx, runs, writes, depth, nexts, settled>>

createI18n(i, messages, defaultLocale) ==
    /\ ~args[i].called
    /\ args' = [args EXCEPT ![i] = [called |-> TRUE, messages |-> messages,
                                    defaultLocale |-> defaultLocale]]
    /\ IF ~includes(ObjectKeys(messages), defaultLocale)
       THEN /\ thrown' = [thrown EXCEPT
                             ![i] = "defaultLocale is not available in messages"]
            /\ UNCHANGED <<getI18nFn, middlewareFn>>
       ELSE /\ getI18nFn' = [getI18nFn EXCEPT ![i] = createGetI18n(messages)]
            /\ middlewareFn' = [middlewareFn EXCEPT ![i] =
                   createI18nMiddleware(ObjectKeys(messages), defaultLocale)]
            /\ UNCHANGED thrown
    /\ last' = Op("createI18n", i, "", NoValue, thrown'[i], Undefined)
    /\ UNCHANGED <<ctx, runs, writes, depth, nexts, settled>>

(* ------------------------------------------------------- i18nMiddleware *)

\* Mutant: the selected locale is dropped.
resolveLocale_AlwaysDefault(selectedLocale, locales, defaultLocale) ==
    defaultLocale

\* String.prototype.toLowerCase on the tags in use (for the next mutant).
toLowerCase(s) ==
    CASE s = "en-EN" -> "en-en"
      [] s = "de-DE" -> "de-de"
      [] s = "tr-TR" -> "tr-tr"
      [] s = "en-EN-x" -> "en-en-x"
      [] OTHER -> s

\* Mutant: the membership test ignores case.
resolveLocale_IgnoreCase(selectedLocale, locales, defaultLocale) ==
    IF /\ typeof(selectedLocale) = "string"
       /\ \E k \in 1..Len(locales) :
             toLowerCase(locales[k]) = toLowerCase(selectedLocale.val)
    THEN selectedLocale.val
    ELSE defaultLocale

\* const locale = typeof selectedLocale === "string"
\*                && locales.includes(selectedLocale) ? selectedLocale : defaultLocale
resolveLocale(selectedLocale, locales, defaultLocale) ==
    IF typeof(selectedLocale) = "string" /\ includes(locales, selectedLocale.val)
    THEN selectedLocale.val
    ELSE defaultLocale

\* Mutant: one slot shared by all requests.
cSet_Shared(c, r, value) == [q \in Requests |-> Some(value)]

\* c.set("i18n", value) on request r's context.
cSet(c, r, value) == [c EXCEPT ![r] = Some(value)]

\* Mutant: the slot read is that of the request bound last.
cGet_LastBound(c, r) == IF last.req \in Requests THEN c[last.req] ELSE c[r]

\* c.get("i18n") on request r's context.
cGet(c, r) == c[r]

\* Mutant: next() is called before the context variable is set.
i18nMiddleware_NextBeforeSet(i, r) ==
    /\ middlewareFn[i].defined
    /\ runs[r] < MaxRuns
    /\ \E selectedLocale \in GetLocaleReturns :
         last' = Op("i18nMiddleware", i, r, selectedLocale, "", Undefined)
    /\ runs' = [runs EXCEPT ![r] = @ + 1]
    /\ depth' = [depth EXCEPT ![r] = @ + 1]
    /\ nexts' = [nexts EXCEPT ![r] = @ + 1]
    /\ UNCHANGED <<args, thrown, getI18nFn, middlewareFn, ctx, writes, settled>>

\* Mutant: next() is called but not awaited, so the run returns at once.
i18nMiddleware_NoAwait(i, r) ==
    /\ middlewareFn[i].defined
    /\ runs[r] < MaxRuns
    /\ \E selectedLocale \in GetLocaleReturns :
         LET locale == resolveLocale(selectedLocale, middlewareFn[i].locales,
                                     middlewareFn[i].defaultLocale)
         IN  /\ ctx' = cSet(ctx, r, [locale |-> locale])
             /\ last' = Op("i18nMiddleware", i, r, selectedLocale, "", Undefined)
    /\ writes' = [writes EXCEPT ![r] = @ + 1]
    /\ runs' = [runs EXCEPT ![r] = @ + 1]
    /\ nexts' = [nexts EXCEPT ![r] = @ + 1]
    /\ settled' = [settled EXCEPT ![r] = @ + 1]
    /\ UNCHANGED <<args, thrown, getI18nFn, middlewareFn, depth>>

\* Mutant: a throwing getLocale is caught and the default locale is bound.
i18nMiddleware_CatchesGetLocale(i, r) ==
    /\ middlewareFn[i].defined
    /\ runs[r] < MaxRuns
    /\ \E selectedLocale \in GetLocaleOutcomes :
         LET locale == resolveLocale(selectedLocale, middlewareFn[i].locales,
                                     middlewareFn[i].defaultLocale)
         IN  /\ ctx' = cSet(ctx, r, [locale |-> locale])
             /\ last' = Op("i18nMiddleware", i, r, selectedLocale, "", Undefined)
    /\ writes' = [writes EXCEPT ![r] = @ + 1]
    /\ runs' = [runs EXCEPT ![r] = @ + 1]
    /\ depth' = [depth EXCEPT ![r] = @ + 1]
    /\ nexts' = [nexts EXCEPT ![r] = @ + 1]
    /\ UNCHANGED <<args, thrown, getI18nFn, middlewareFn, settled>>

\* One run of instance i's middleware for request r, up to its await: it
\* calls getLocale, sets the context variable and calls next().  When
\* getLocale throws, the run ends there: its promise rejects with that
\* error, nothing is set and next() is not called.
i18nMiddleware(i, r) ==
    /\ middlewareFn[i].defined
    /\ runs[r] < MaxRuns
    /\ runs' = [runs EXCEPT ![r] = @ + 1]
    /\ \E selectedLocale \in GetLocaleOutcomes :
         IF selectedLocale = Throws
         THEN /\ last' = Op("i18nMiddleware", i, r, selectedLocale,
                            selectedLocale.val, Undefined)
              /\ settled' = [settled EXCEPT ![r] = @ + 1]
              /\ UNCHANGED <<ctx, writes, depth, nexts>>
         ELSE LET locale == resolveLocale(selectedLocale, middlewareFn[i].locales,
                                          middlewareFn[i].defaultLocale)
              IN  /\ ctx' = cSet(ctx, r, [locale |-> locale])
                  /\ last' = Op("i18nMiddleware", i, r, selectedLocale, "",
                                Undefined)
                  /\ writes' = [writes EXCEPT ![r] = @ + 1]
                  /\ nexts' = [nexts EXCEPT ![r] = @ + 1]
                  /\ depth' = [depth EXCEPT ![r] = @ + 1]
                  /\ UNCHANGED settled
    /\ UNCHANGED <<args, thrown, getI18nFn, middlewareFn>>

\* Mutant: the run clears the context variable when it resumes.
NextSettles_ClearsSlot(r) ==
    /\ depth[r] > 0
    /\ depth' = [depth EXCEPT ![r] = @ - 1]
    /\ settled' = [settled EXCEPT ![r] = @ + 1]
    /\ ctx' = [ctx EXCEPT ![r] = Undefined]
    /\ \E error \in NextOutcomes :
         last' = OpNext(r, IF error = "" THEN "fulfilled" ELSE "rejected", error)
    /\ UNCHANGED <<args, thrown, getI18nFn, middlewareFn, runs, writes, nexts>>

\* next() settles for the innermost suspended run of request r, which
\* resumes after its await and returns; a rejection of next() is rethrown
\* by the await and rejects the run's promise.
NextSettles(r) ==
    /\ depth[r] > 0
    /\ depth' = [depth EXCEPT ![r] = @ - 1]
    /\ settled' = [settled EXCEPT ![r] = @ + 1]
    /\ \E error \in NextOutcomes :
         last' = OpNext(r, IF error = "" THEN "fulfilled" ELSE "rejected", error)
    /\ UNCHANGED <<args, thrown, getI18nFn, middlewareFn, ctx, runs, writes, nexts>>

(* -------------------------------------------------------------- getI18n *)

\* Mutant: an absent slot falls back to the first locale of the catalog.
getI18n_FallsBack(i, r) ==
    /\ getI18nFn[i].defined
    /\ Len(getI18nFn[i].messages) > 0
    /\ LET i18n == cGet(ctx, r)
           locale == IF i18n = Undefined
                     THEN getI18nFn[i].messages[1].key
                     ELSE i18n[1].locale
       IN  last' = Op("getI18n", i, r, NoValue, "",
                      Some(createTranslate(getI18nFn[i].messages, locale)))
    /\ UNCHANGED <<args, thrown, getI18nFn, middlewareFn, ctx, runs, writes, depth,
                   nexts, settled>>

\* Mutant: the translator is built for the first locale of the catalog,
\* whatever the slot holds.
getI18n_IgnoresSlot(i, r) ==
    /\ getI18nFn[i].defined
    /\ Len(getI18nFn[i].messages) > 0
    /\ LET i18n == cGet(ctx, r)
       IN  IF i18n = Undefined
           THEN last' = Op("getI18n", i, r, NoValue,
                           "createI18nMiddleware middleware not initialized",
                           Undefined)
           ELSE last' = Op("getI18n", i, r, NoValue, "",
                           Some(createTranslate(getI18nFn[i].messages,
                                                getI18nFn[i].messages[1].key)))
    /\ UNCHANGED <<args, thrown, getI18nFn, middlewareFn, ctx, runs, writes, depth,
                   nexts, settled>>

\* Mutant: the translator built last is kept and handed out again.
getI18n_Cached(i, r) ==
    /\ getI18nFn[i].defined
    /\ LET i18n == cGet(ctx, r)
       IN  IF i18n = Undefined
           THEN last' = Op("getI18n", i, r, NoValue,
                           "createI18nMiddleware middleware not initialized",
                           Undefined)
           ELSE IF last.translator # Undefined
           THEN last' = Op("getI18n", i, r, NoValue, "", last.translator)
           ELSE last' = Op("getI18n", i, r, NoValue, "",
                           Some(createTranslate(getI18nFn[i].messages,
                                                i18n[1].locale)))
    /\ UNCHANGED <<args, thrown, getI18nFn, middlewareFn, ctx, runs, writes, depth,
                   nexts, settled>>

\* A handler of request r calls instance i's getI18n(c).
getI18n(i, r) ==
    /\ getI18nFn[i].defined
    /\ LET i18n == cGet(ctx, r)
       IN  IF i18n = Undefined
           THEN last' = Op("getI18n", i, r, NoValue,
                           "createI18nMiddleware middleware not initialized",
                           Undefined)
           ELSE last' = Op("getI18n", i, r, NoValue, "",
                           Some(createTranslate(getI18nFn[i].messages,
                                                i18n[1].locale)))
    /\ UNCHANGED <<args, thrown, getI18nFn, middlewareFn, ctx, runs, writes, depth,
                   nexts, settled>>

(* -------------------------------------------------------- specification *)

Next ==
    \/ \E i \in Instances, messages \in Catalogs, defaultLocale \in DefaultLocales :
          createI18n(i, messages, defaultLocale)
    \/ \E i \in Instances, r \in Requests : i18nMiddleware(i, r)
    \/ \E r \in Requests : NextSettles(r)
    \/ \E i \in Instances, r \in Requests : getI18n(i, r)

Spec == Init /\ [][Next]_vars

(* --------------------------------------------------------------- claims *)

\* The catalog and the default locale instance i was created with.
IsKey(i, x) == \E k \in 1..Len(args[i].messages) : args[i].messages[k].key = x

Supported(i, v) == v.type = "string" /\ IsKey(i, v.val)

Bound(r) == ctx[r] # Undefined

LocaleOf(r) == ctx[r][1].locale

NotInitialized == "createI18nMiddleware middleware not initialized"

NotAvailable == "defaultLocale is not available in messages"

\* C1: when getLocale returns a string that is a key of the instance's
\* catalog, the middleware binds the request's slot to exactly that locale.
C1_SupportedLocaleBound ==
    last.op = "i18nMiddleware" /\ Supported(last.inst, last.selected)
        => ctx[last.req] = Some([locale |-> last.selected.val])

C1_Witness ==
    /\ last.op = "i18nMiddleware"
    /\ last.selected = Str("de-DE")
    /\ args[last.inst].messages = TestMessages
    /\ args[last.inst].defaultLocale = "en-EN"
    /\ ctx[last.req] = Some([locale |-> "de-DE"])

\* C2: when getLocale returns anything but a key of the catalog (a
\* non-string, or a string that is no exact key), the middleware binds the
\* default locale, raises no error and goes on to next().
C2_UnsupportedFallsBackToDefault ==
    (/\ last.op = "i18nMiddleware"
     /\ last.selected \in GetLocaleReturns
     /\ ~Supported(last.inst, last.selected))
        => /\ ctx[last.req] = Some([locale |-> args[last.inst].defaultLocale])
           /\ last.error = ""
           /\ depth[last.req] > 0

C2_Witness ==
    /\ last.op = "i18nMiddleware"
    /\ last.selected = Str("en-en")
    /\ args[last.inst].messages = TestMessages
    /\ args[last.inst].defaultLocale = "de-DE"
    /\ ctx[last.req] = Some([locale |-> "de-DE"])
    /\ depth[last.req] > 0

\* C3: createI18n throws 'defaultLocale is not available in messages' when
\* defaultLocale is no key of messages, at the call itself, and then returns
\* neither function: that instance never binds or translates a request.
C3_ConstructionFails ==
    \A i \in Instances :
        args[i].called /\ ~IsKey(i, args[i].defaultLocale)
            => /\ thrown[i] = NotAvailable
               /\ ~getI18nFn[i].defined
               /\ ~middlewareFn[i].defined
               /\ last.inst = i => last.op = "createI18n" /\ last.error = NotAvailable

C3_Witness ==
    \E i \in Instances :
        /\ args[i].called
        /\ args[i].messages = TestMessages
        /\ args[i].defaultLocale = "tr-TR"
        /\ thrown[i] = NotAvailable
        /\ \E r \in Requests : Bound(r)

\* C4: getI18n on a request whose slot is absent throws 'createI18nMiddleware
\* middleware not initialized', builds no translator and leaves the slot
\* absent.
C4_AccessorFailsWhenAbsent ==
    [][\A r \in Requests :
          last'.op = "getI18n" /\ last'.req = r /\ ~Bound(r)
              => /\ last'.error = NotInitialized
                 /\ last'.translator = Undefined
                 /\ ctx'[r] = Undefined]_vars

C4_Witness ==
    /\ last.op = "getI18n"
    /\ last.error = NotInitialized
    /\ ~Bound(last.req)
    /\ runs[last.req] = 0
    /\ \E r \in Requests : Bound(r)

\* C5: while a middleware run of a request is suspended at next(), the
\* request's slot is bound, and every getI18n call made then succeeds.
C5_BoundBeforeNext ==
    /\ \A r \in Requests : depth[r] > 0 => Bound(r)
    /\ last.op = "getI18n" /\ depth[last.req] > 0
          => last.error = "" /\ last.translator # Undefined

C5_Witness ==
    /\ last.op = "getI18n"
    /\ depth[last.req] > 0
    /\ last.translator # Undefined

\* C6: under every interleaving, a request's slot changes only by a
\* middleware run for that very request, to the locale resolved from the
\* value getLocale returned in that run; and a translator obtained for a
\* request carries the locale of that request's own slot.
C6_NoCrossRequestBleed ==
    [][\A r \in Requests :
          /\ ctx'[r] # ctx[r]
                => /\ last'.op = "i18nMiddleware"
                   /\ last'.req = r
                   /\ ctx'[r] = Some([locale |->
                          IF Supported(last'.inst, last'.selected)
                          THEN last'.selected.val
                          ELSE args[last'.inst].defaultLocale])
          /\ last'.op = "getI18n" /\ last'.req = r /\ last'.translator # Undefined
                => Bound(r) /\ last'.translator[1].locale = LocaleOf(r)]_vars

C6_Witness ==
    /\ depth["r1"] > 0
    /\ depth["r2"] > 0
    /\ ctx["r1"] = Some([locale |-> "en-EN"])
    /\ ctx["r2"] = Some([locale |-> "de-DE"])
    /\ last.op = "getI18n"
    /\ last.req = "r2"
    /\ last.translator # Undefined
    /\ last.translator[1].locale = "de-DE"

\* C7: getI18n on a request whose slot is present builds the translator from
\* exactly the catalog given to createI18n and the locale stored in the slot.
\* End to end with the test catalog and default "en-EN": the signals "tr-TR"
\* and "de-DE" bind "en-EN" and "de-DE", whose translators render greeting as
\* "Hi!" and "Hallo!".
C7_AccessorDelegates ==
    /\ last.op = "getI18n" /\ Bound(last.req)
          => /\ last.error = ""
             /\ last.translator =
                    Some([messages |-> args[last.inst].messages,
                          locale |-> LocaleOf(last.req)])
    /\ (/\ last.op = "i18nMiddleware"
        /\ args[last.inst].messages = TestMessages
        /\ args[last.inst].defaultLocale = "en-EN")
          => /\ last.selected = Str("de-DE") => LocaleOf(last.req) = "de-DE"
             /\ last.selected = Str("tr-TR") => LocaleOf(last.req) = "en-EN"
    /\ (/\ last.op = "getI18n"
        /\ Bound(last.req)
        /\ args[last.inst].messages = TestMessages)
          => /\ LocaleOf(last.req) = "de-DE"
                   => t(last.translator[1], "greeting") = "Hallo!"
             /\ LocaleOf(last.req) = "en-EN"
                   => t(last.translator[1], "greeting") = "Hi!"

C7_Witness ==
    /\ last.op = "getI18n"
    /\ args[last.inst].messages = TestMessages
    /\ ctx[last.req] = Some([locale |-> "de-DE"])
    /\ last.translator # Undefined
    /\ t(last.translator[1], "greeting") = "Hallo!"

C9_MiddlewareFrame ==
    [][\A r \in Requests :
          runs'[r] # runs[r]
              => /\ \A q \in Requests \ {r} : ctx'[q] = ctx[q]
                 /\ middlewareFn' = middlewareFn
                 /\ getI18nFn' = getI18nFn
                 /\ args' = args]_vars

C9_Witness ==
    /\ last.op = "i18nMiddleware"
    /\ last.req = "r1"
    /\ ctx["r1"] = Some([locale |-> "en-EN"])
    /\ ctx["r2"] = Some([locale |-> "de-DE"])
    /\ depth["r2"] > 0

\* C10: a bound slot always holds a key of the catalog of the instance that
\* bound it, whatever getLocale returned; binding raises no error.
C10_BoundLocaleSupported ==
    /\ last.op = "i18nMiddleware" /\ last.selected \in GetLocaleReturns
          => /\ Bound(last.req)
             /\ IsKey(last.inst, LocaleOf(last.req))
             /\ includes(middlewareFn[last.inst].locales, LocaleOf(last.req))
             /\ last.error = ""
    /\ \A r \in Requests :
          Bound(r) => \E i \in Instances :
                         /\ middlewareFn[i].defined
                         /\ IsKey(i, LocaleOf(r))
                         /\ includes(middlewareFn[i].locales, LocaleOf(r))

C10_Witness ==
    /\ last.op = "i18nMiddleware"
    /\ last.selected = Str("tr-TR")
    /\ args[last.inst].messages = GermanOnly
    /\ LocaleOf(last.req) = "de-DE"

\* C11: after a successful createI18n the middleware's locale list is the
\* key list of the catalog it was called with, is not empty and contains the
\* default locale; a call with an empty catalog never succeeds; and the list
\* of an instance never changes afterwards, whatever requests are served.
C11_LocalesAreCatalogKeys ==
    [][\A i \in Instances :
          /\ middlewareFn'[i].defined
                => /\ args'[i].called
                   /\ Len(middlewareFn'[i].locales) = Len(args'[i].messages)
                   /\ \A k \in 1..Len(args'[i].messages) :
                         middlewareFn'[i].locales[k] = args'[i].messages[k].key
                   /\ Len(middlewareFn'[i].locales) > 0
                   /\ \E k \in 1..Len(middlewareFn'[i].locales) :
                         middlewareFn'[i].locales[k] = args'[i].defaultLocale
                   /\ middlewareFn'[i].defaultLocale = args'[i].defaultLocale
          /\ args'[i].called /\ args'[i].messages = <<>>
                => ~middlewareFn'[i].defined /\ ~getI18nFn'[i].defined
          /\ middlewareFn[i].defined
                => middlewareFn'[i] = middlewareFn[i] /\ args'[i] = args[i]]_vars

C11_Witness ==
    /\ last.op = "i18nMiddleware"
    /\ args[last.inst].messages = TestMessages
    /\ args[last.inst].defaultLocale = "de-DE"
    /\ middlewareFn[last.inst].locales = <<"en-EN", "de-DE">>
    /\ runs[last.req] = 2
    /\ \E i \in Instances : args[i].called /\ args[i].messages = <<>>

\* Every reordering of a list.
Permutations(list) ==
    { [k \in 1..Len(list) |-> list[f[k]]] :
        f \in { g \in [1..Len(list) -> 1..Len(list)] :
                  \A a, b \in 1..Len(list) : g[a] = g[b] => a = b } }

\* C14: the locale a middleware run binds is the one resolved from any
\* reordering of the instance's locale list, and whether createI18n succeeds
\* does not depend on the order of the catalog keys either.
C14_OrderIrrelevant ==
    /\ last.op = "i18nMiddleware" /\ last.selected \in GetLocaleReturns
          => \A p \in Permutations(middlewareFn[last.inst].locales) :
                LocaleOf(last.req) =
                    resolveLocale(last.selected, p,
                                  middlewareFn[last.inst].defaultLocale)
    /\ \A i \in Instances :
          args[i].called
              => \A p \in Permutations(ObjectKeys(args[i].messages)) :
                    includes(p, args[i].defaultLocale) <=> middlewareFn[i].defined

C14_Witness ==
    /\ last.op = "i18nMiddleware"
    /\ last.selected = Str("de-DE")
    /\ middlewareFn[last.inst].locales = <<"en-EN", "de-DE">>
    /\ middlewareFn[last.inst].defaultLocale = "en-EN"
    /\ <<"de-DE", "en-EN">> \in Permutations(middlewareFn[last.inst].locales)
    /\ LocaleOf(last.req) = "de-DE"

\* C12: a middleware run that binds the slot calls next() exactly once, with
\* the slot already written, and stays suspended; its promise settles only
\* in the step in which that next() settles, and when next() rejects the
\* promise rejects with the same error while the slot stays bound.
C12_NextOnceThenAwaited ==
    [][\A r \in Requests :
          /\ writes'[r] = writes[r] + 1
                => /\ nexts'[r] = nexts[r] + 1
                   /\ depth'[r] = depth[r] + 1
                   /\ settled'[r] = settled[r]
                   /\ ctx'[r] # Undefined
          /\ nexts'[r] # nexts[r]
                => nexts'[r] = nexts[r] + 1 /\ writes'[r] = writes[r] + 1
          /\ nexts'[r] = writes'[r]
          /\ settled'[r] # settled[r] /\ writes'[r] > 0 /\ last'.op = "next"
                => /\ last'.req = r
                   /\ settled'[r] = settled[r] + 1
                   /\ depth'[r] = depth[r] - 1
                   /\ last'.next \in {"fulfilled", "rejected"}
                   /\ last'.next = "fulfilled" <=> last'.error = ""
                   /\ ctx'[r] = ctx[r] /\ ctx'[r] # Undefined
          /\ settled'[r] # settled[r] /\ last'.op # "next"
                => last'.selected = Throws /\ writes'[r] = writes[r]
          /\ nexts'[r] - depth'[r] + (runs'[r] - writes'[r]) = settled'[r]]_vars

C12_Witness ==
    /\ last.op = "next"
    /\ last.next = "rejected"
    /\ last.error = "handler error"
    /\ Bound(last.req)
    /\ nexts[last.req] = 2
    /\ settled[last.req] = 1
    /\ depth[last.req] = 1

\* C13: a middleware run whose getLocale throws writes no slot and calls no
\* next(): every slot stays as it was and the error leaves the run.  A
\* request for which no run got past getLocale (none started, or all threw)
\* has an absent slot and no suspended run, so nothing runs downstream of
\* the middleware for it and every getI18n call on it throws.
C13_NoBindNoNext ==
    [][\A r \in Requests :
          /\ runs'[r] = runs[r] + 1 /\ last'.selected = Throws
                => /\ ctx' = ctx
                   /\ writes'[r] = writes[r]
                   /\ nexts'[r] = nexts[r]
                   /\ depth'[r] = depth[r]
                   /\ last'.error = Throws.val
          /\ writes'[r] = 0
                => /\ ctx'[r] = Undefined
                   /\ nexts'[r] = 0
                   /\ depth'[r] = 0
          /\ last'.op = "getI18n" /\ last'.req = r /\ writes'[r] = 0
                => last'.translator = Undefined /\ last'.error = NotInitialized]_vars

C13_Witness ==
    /\ last.op = "i18nMiddleware"
    /\ last.selected = Throws
    /\ last.error = "getLocale error"
    /\ runs[last.req] = 2
    /\ writes[last.req] = 0
    /\ ~Bound(last.req)
    /\ \E q \in Requests : Bound(q) /\ depth[q] > 0

\* The pair instance i's getI18n passes to createTranslate for a request
\* whose slot is `slot`.
PairPassed(fn, slot) == [messages |-> fn.messages, locale |-> slot[1].locale]

C16_PassedLocaleIsCatalogKey ==
    last.op = "getI18n" /\ last.translator # Undefined
        => \E k \in 1..Len(last.translator[1].messages) :
              last.translator[1].messages[k].key = last.translator[1].locale

====
